---- MODULE Spec2Model ----
(***************************************************************************)
(* The Browser durable object of src/src/index.ts: one actor that owns a   *)
(* puppeteer browser handle, serves image requests through a KV cache and  *)
(* keeps the browser warm with a recurring alarm.                          *)
(*                                                                         *)
(* A request handler and the alarm handler are asynchronous functions:     *)
(* the code between two awaits runs without interruption, and every await  *)
(* on the network (crypto digest, puppeteer, KV) is a point where another  *)
(* request or the alarm may run.  Each action below is one such stretch of *)
(* code.  Awaits on the actor's own storage (getAlarm, setAlarm) do not    *)
(* admit other events, so they stay inside the stretch that issues them.   *)
(***************************************************************************)
EXTENDS Integers, Sequences, FiniteSets, TLC

(* ------------------------------ bounds --------------------------------- *)
MaxReq == 2        \* request slots: requests in flight at the same time
MaxLaunch == 2     \* launches of a browser the environment grants
MaxKept == 90      \* cap on keptAliveInSeconds (the code has none)
TimeStep == 5      \* seconds by which the clock advances in one step
MaxTicks == 6      \* alarms counted since the last request arrived

(* --------------------------- program constants ------------------------- *)
KEEP_BROWSER_ALIVE_IN_SECONDS == 60
TEN_SECONDS == 10
DefaultXMax == 360
DefaultYMax == 1600

Procs == 1..MaxReq
NoAlarm == -1                      \* getAlarm() === null
Undefined == [t |-> "undefined"]   \* undefined, as a value of the options
NaN == [t |-> "number", nan |-> TRUE]
NullImg == [t |-> "null"]          \* img === null
NoUrl == "none"                    \* searchParams.get('url') === null
NoSearch == << >>                  \* url.search without a parameter
NoRequest == [none |-> TRUE]
NoResponse == [kind |-> "none"]
Ws == [ws |-> TRUE]                \* insignificant white space in a text

(* ------------------------------ inputs --------------------------------- *)
Num(n) == [t |-> "number", v |-> n]
Str(s) == [t |-> "string", v |-> s]
Field(k, val) == [key |-> k, val |-> val]

\* texts of the options parameter: the fields of the json member in the
\* order written, with white space where the sender put it
OptionTexts ==
    { << Field("xMax", Num(480)) >>,
      << Ws, Field("xMax", Num(480)) >>,
      << Field("yMax", Str(<< "9", "0", "0" >>)) >> }

Urls == {"u1", "u2"}

\* url.search of the target: its name=value pairs in the order written
Pair(name, value) == [name |-> name, value |-> value]

\* searches that give no string under options: no parameter, another
\* parameter, an empty value, and options written twice
NoStringOptions ==
    { NoSearch,
      << Pair("theme", << Field("xMax", Num(480)) >>) >>,
      << Pair("options", << >>) >>,
      << Pair("options", << Field("xMax", Num(480)) >>),
         Pair("options", << Field("xMax", Num(480)) >>) >> }

\* request.url as the handler sees it
Guidance ==
    [favicon : {TRUE}, url : {NoUrl}, search : {NoSearch}]
        \cup [favicon : {FALSE}, url : {NoUrl}, search : {NoSearch}]
        \cup [favicon : {FALSE}, url : Urls, search : NoStringOptions]
ImageRequests(urls, texts) ==
    [favicon : {FALSE}, url : urls, search : { << Pair("options", t) >> : t \in texts }]
Requests == Guidance \cup ImageRequests(Urls, OptionTexts)

\* the requests of the concurrent specification: one page, one key
FewRequests == ImageRequests({"u1"}, { << Field("xMax", Num(480)) >> })

\* inputs of the pure functions and what they gave
NoArg == [t |-> "none"]
NoResult == [t |-> "none"]

(* --------------------------- pure functions ---------------------------- *)
RECURSIVE DropWs(_)
DropWs(s) ==
    IF s = << >> THEN << >>
    ELSE IF Head(s) = Ws THEN DropWs(Tail(s))
         ELSE << Head(s) >> \o DropWs(Tail(s))

\* superjson.parse: the object of the text, its keys in the order written
parse(text) == DropWs(text)

\* superjson.stringify: the keys in the object's own order, no white space
stringify(obj) == obj

\* hashString: the SHA-256 hex digest, a function of the text alone and
\* taken to be free of collisions
hashString(inputStr) == << "sha256", inputStr >>

\* parseInt(s): a string is the sequence of its characters; leading white
\* space and one sign are skipped, the digits that follow are read up to the
\* first other character, and NaN is the result when no digit leads
IsDigit(c) == c \in {"0", "1", "2", "3", "4", "5", "6", "7", "8", "9"}

DigitVal(c) ==
    CASE c = "0" -> 0 [] c = "1" -> 1 [] c = "2" -> 2 [] c = "3" -> 3
      [] c = "4" -> 4 [] c = "5" -> 5 [] c = "6" -> 6 [] c = "7" -> 7
      [] c = "8" -> 8 [] c = "9" -> 9

RECURSIVE SkipSpaces(_)
SkipSpaces(s) ==
    IF s # << >> /\ Head(s) = " " THEN SkipSpaces(Tail(s)) ELSE s

RECURSIVE ReadDigits(_, _)
ReadDigits(s, acc) ==
    IF s = << >> \/ ~IsDigit(Head(s)) THEN acc
    ELSE ReadDigits(Tail(s), acc * 10 + DigitVal(Head(s)))

parseInt(s) ==
    LET t == SkipSpaces(s)
        signed == t # << >> /\ Head(t) \in {"-", "+"}
        digits == IF signed THEN Tail(t) ELSE t
        sign == IF signed /\ Head(t) = "-" THEN -1 ELSE 1
    IN  IF digits = << >> \/ ~IsDigit(Head(digits)) THEN NaN
        ELSE Num(sign * ReadDigits(digits, 0))

typeofNumber(x) == x.t = "number"

\* getNumber without the parseInt of line 155
getNumberNoParse(value) ==
    IF typeofNumber(value) /\ value # NaN THEN value ELSE Undefined

getNumber(value) ==
    LET first == IF typeofNumber(value) THEN value ELSE Undefined
        second == IF first = NaN \/ ~typeofNumber(first)
                  THEN (IF value.t = "string" THEN parseInt(value.v) ELSE Undefined)
                  ELSE first
    IN  IF second = NaN \/ ~typeofNumber(second) THEN Undefined ELSE second

\* parsedObj[k]: the value of the last field named k, undefined if none
RECURSIVE Lookup(_, _)
Lookup(obj, k) ==
    IF obj = << >> THEN Undefined
    ELSE LET rest == Lookup(Tail(obj), k)
         IN  IF rest # Undefined THEN rest
             ELSE IF Head(obj).key = k THEN Head(obj).val ELSE Undefined

\* n || dflt: undefined, NaN and 0 are falsy
OrDefault(n, dflt) ==
    IF n = Undefined \/ n = NaN \/ n = Num(0) THEN dflt ELSE n.v

Viewport(obj) ==
    [width  |-> OrDefault(getNumber(Lookup(obj, "xMax")), DefaultXMax),
     height |-> OrDefault(getNumber(Lookup(obj, "yMax")), DefaultYMax)]

\* a value of params: an array of strings where a name was repeated
Arr(list) == [t |-> "array", v |-> list]

\* if (params[key]): undefined and the empty string are falsy
Truthy(x) == x.t = "array" \/ (x.t = "string" /\ x.v # << >>)

\* mutant: a repeated name keeps its first value instead of an array
FirstParamOf(pairs, key, sofar) ==
    IF \E i \in DOMAIN pairs : pairs[i].name = key
    THEN Str(pairs[CHOOSE i \in DOMAIN pairs :
                      pairs[i].name = key /\ \A j \in 1..(i - 1) : pairs[j].name # key].value)
    ELSE sofar

\* the loop of parseSearchParams, for one key of params
RECURSIVE ParamOf(_, _, _)
ParamOf(pairs, key, sofar) ==
    IF pairs = << >> THEN sofar
    ELSE LET pair == Head(pairs)
             next == IF pair.name # key \/ key = "" THEN sofar
                     ELSE IF ~Truthy(sofar) THEN Str(pair.value)
                     ELSE IF sofar.t = "array" THEN Arr(Append(sofar.v, pair.value))
                     ELSE Arr(<< sofar.v, pair.value >>)
         IN  ParamOf(Tail(pairs), key, next)

\* parseSearchParams(url.search), the member the handler reads
parseSearchParams(queryString) ==
    [options |-> ParamOf(queryString, "options", Undefined)]

\* parsed && parsedOptions && typeof parsedOptions === 'string'
HasStringOptions(r) ==
    LET parsedOptions == parseSearchParams(r.search).options
    IN  parsedOptions.t = "string" /\ parsedOptions.v # << >>

\* parsedOptions, when it is a string
OptionsText(r) == parseSearchParams(r.search).options.v

optionsStrOf(r) == stringify(parse(OptionsText(r)))

\* mutant: the target URL goes into the digest too
KeyOfWithUrl(r) == hashString(<< r.url, optionsStrOf(r) >>)

\* optionsHashed: the digest of the canonical options string
KeyOf(r) == hashString(optionsStrOf(r))
Keys == { KeyOf(r) : r \in ImageRequests(Urls, OptionTexts) }

\* page.screenshot(): the page at url.href drawn in the viewport
ScreenshotOf(r) ==
    [t |-> "image", href |-> << r.url, optionsStrOf(r) >>,
     viewport |-> Viewport(parse(OptionsText(r)))]

(* ------------------------------- state --------------------------------- *)
VARIABLES
    browser,             \* this.browser: 0 for null, else a browser's id
    keptAliveInSeconds,  \* this.keptAliveInSeconds
    alarm,               \* seconds until the stored alarm is due, or NoAlarm
    cache,               \* ICON_BG_BROWSER: key -> bytes or NullImg
    open,                \* browsers launched and still connected
    launched,            \* number of browsers launched so far
    pc,                  \* where each request's handler is suspended
    req,                 \* the request each slot is handling
    img,                 \* the handler's local img
    page,                \* browser the handler's page belongs to, 0 if none
    log,                 \* what the handler has done so far, in order
    resp,                \* the response of a finished handler
    apc,                 \* where the alarm handler is suspended
    closing,             \* browser the alarm handler is closing
    ticksSince,          \* alarms fired since the last request arrived
    arg,                 \* the input a pure function is applied to
    result               \* what the pure function gave

vars == << browser, keptAliveInSeconds, alarm, cache, open, launched,
           pc, req, img, page, log, resp, apc, closing, ticksSince,
           arg, result >>

actorVars == << browser, keptAliveInSeconds, alarm, cache, open, launched >>
reqVars == << pc, req, img, page, log, resp >>
alarmVars == << apc, closing >>
pureVars == << arg, result >>

InitActor ==
    /\ browser = 0
    /\ keptAliveInSeconds = 0
    /\ alarm = NoAlarm
    /\ cache = [k \in Keys |-> NullImg]
    /\ open = {}
    /\ launched = 0
    /\ pc = [p \in Procs |-> "idle"]
    /\ req = [p \in Procs |-> NoRequest]
    /\ img = [p \in Procs |-> NullImg]
    /\ page = [p \in Procs |-> 0]
    /\ log = [p \in Procs |-> << >>]
    /\ resp = [p \in Procs |-> NoResponse]
    /\ apc = "idle"
    /\ closing = 0
    /\ ticksSince = 0

Init ==
    /\ InitActor
    /\ arg = NoArg
    /\ result = NoResult

(* ------------------------------ responses ------------------------------ *)
EmptyResponse == [kind |-> "empty"]
TextResponse(text) == [kind |-> "text", body |-> text]
ImageResponse(image) == [kind |-> "image", body |-> image]
Fault == [kind |-> "fault"]

MissingUrlText == "Please add an ?url=https://example.com/ parameter"
MissingOptionsText == "Please add options to your url"

(* ------------------------ conditions of the code ----------------------- *)
isConnected(b) == b \in open

\* !this.browser || !this.browser.isConnected()
NeedsLaunch == browser = 0 \/ ~isConnected(browser)

\* mutant: the render no longer asks whether the cache gave an image
ShouldRenderAnyway(image) == browser # 0

\* mutant: setAlarm is never called
ArmedAlarmNever(current) == current

\* img === null && this.browser
ShouldRender(image) == image = NullImg /\ browser # 0

\* mutant: the ceiling itself still counts as below it
BelowCeilingInclusive(kept) == kept <= KEEP_BROWSER_ALIVE_IN_SECONDS

\* this.keptAliveInSeconds < KEEP_BROWSER_ALIVE_IN_SECONDS
BelowCeiling(kept) == kept < KEEP_BROWSER_ALIVE_IN_SECONDS

\* mutant: setAlarm without asking getAlarm first
ArmedAlarmAlways(current) == TEN_SECONDS

\* getAlarm, then setAlarm(Date.now() + TEN_SECONDS) if it gave null
ArmedAlarm(current) == IF current = NoAlarm THEN TEN_SECONDS ELSE current

InFlight == { p \in Procs : pc[p] \notin {"idle", "done"} }

\* the counter has no bound in the code: a request is admitted while the
\* alarms it and the requests in flight can still cause fit under MaxKept
Headroom ==
    LET reach == IF keptAliveInSeconds + TEN_SECONDS > KEEP_BROWSER_ALIVE_IN_SECONDS
                 THEN keptAliveInSeconds + TEN_SECONDS
                 ELSE KEEP_BROWSER_ALIVE_IN_SECONDS
    IN  reach + TEN_SECONDS * (Cardinality(InFlight) + 1) <= MaxKept

Step(p, to, events) ==
    /\ pc' = [pc EXCEPT ![p] = to]
    /\ log' = [log EXCEPT ![p] = @ \o events]

\* the handler returns response r
Finish(p, r, events) ==
    /\ Step(p, "done", events)
    /\ resp' = [resp EXCEPT ![p] = r]

\* an awaited call throws and nothing catches it
Throw(p) ==
    /\ Finish(p, Fault, << "throw" >>)
    /\ UNCHANGED << actorVars, req, img, page, alarmVars, ticksSince, pureVars >>

(* ---------------------------- Browser.fetch ---------------------------- *)
\* the worker hands the request to the actor, which runs up to its first
\* await: the guidance responses, or the digest of the options
Arrive(p, r) ==
    /\ pc[p] = "idle"
    /\ req' = [req EXCEPT ![p] = r]
    /\ IF r.favicon
       THEN Finish(p, EmptyResponse, << >>)
       ELSE IF r.url = NoUrl
       THEN Finish(p, TextResponse(MissingUrlText), << >>)
       ELSE IF ~HasStringOptions(r)
       THEN Finish(p, TextResponse(MissingOptionsText), << >>)
       ELSE /\ Headroom
            /\ Step(p, "hash", << >>)
            /\ UNCHANGED resp
    /\ ticksSince' = 0
    /\ UNCHANGED << actorVars, img, page, alarmVars, pureVars >>

\* hashString has resolved: launch when there is no connected handle,
\* else go straight to the cache
Hashed(p) ==
    /\ pc[p] = "hash"
    /\ IF NeedsLaunch
       THEN Step(p, "launch", << "launch" >>)
       ELSE Step(p, "get", << >>)
    /\ UNCHANGED << actorVars, req, img, page, resp, alarmVars, ticksSince, pureVars >>

\* puppeteer.launch resolves with a new browser
LaunchOk(p) ==
    /\ pc[p] = "launch"
    /\ launched < MaxLaunch
    /\ launched' = launched + 1
    /\ browser' = launched + 1
    /\ open' = open \cup {launched + 1}
    /\ Step(p, "get", << "launched" >>)
    /\ UNCHANGED << keptAliveInSeconds, alarm, cache, req, img, page, resp,
                    alarmVars, ticksSince, pureVars >>

\* puppeteer.launch rejects: logged, this.browser stays what it was
LaunchFail(p) ==
    /\ pc[p] = "launch"
    /\ Step(p, "get", << "launchFailed" >>)
    /\ UNCHANGED << actorVars, req, img, page, resp, alarmVars, ticksSince, pureVars >>

\* getAlarm, setAlarm if none is stored, and the image response
Respond(p, image, events) ==
    /\ alarm' = ArmedAlarm(alarm)
    /\ Finish(p, ImageResponse(image), events \o << "alarm", "respond" >>)

\* ICON_BG_BROWSER.get resolves; on a miss with a handle the render begins
CacheGet(p) ==
    /\ pc[p] = "get"
    /\ LET got == cache[KeyOf(req[p])]
           seen == << IF got = NullImg THEN "miss" ELSE "hit" >>
                       \o (IF isConnected(browser) THEN << "connected" >> ELSE << >>)
       IN  /\ img' = [img EXCEPT ![p] = got]
           /\ IF ShouldRender(got)
              THEN /\ keptAliveInSeconds' = 0
                   /\ page' = [page EXCEPT ![p] = browser]
                   /\ Step(p, "newPage", seen \o << "reset", "render" >>)
                   /\ UNCHANGED << alarm, resp >>
              ELSE /\ Respond(p, got, seen)
                   /\ UNCHANGED << keptAliveInSeconds, page >>
    /\ UNCHANGED << browser, cache, open, launched, req, alarmVars, ticksSince, pureVars >>

\* an awaited call on the page or its browser resolves if the browser is
\* still connected and throws otherwise
PageStep(p, from, to, event) ==
    /\ pc[p] = from
    /\ IF isConnected(page[p])
       THEN Step(p, to, << event >>) /\ UNCHANGED resp
       ELSE Finish(p, Fault, << "throw" >>)
    /\ UNCHANGED << actorVars, req, img, page, alarmVars, ticksSince, pureVars >>

NewPage(p) == PageStep(p, "newPage", "setViewport", "newPage")
SetViewport(p) == PageStep(p, "setViewport", "goto", "setViewport")
Goto(p) == PageStep(p, "goto", "screenshot", "goto")

Screenshot(p) ==
    /\ pc[p] = "screenshot"
    /\ IF isConnected(page[p])
       THEN /\ img' = [img EXCEPT ![p] = ScreenshotOf(req[p])]
            /\ Step(p, "put", << "screenshot" >>)
            /\ UNCHANGED resp
       ELSE /\ Finish(p, Fault, << "throw" >>)
            /\ UNCHANGED img
    /\ UNCHANGED << actorVars, req, page, alarmVars, ticksSince, pureVars >>

\* mutant: the put is not awaited, the handler goes on before it is stored
PutNotAwaited(p) ==
    /\ pc[p] = "put"
    /\ Step(p, "pageClose", << "put" >>)
    /\ UNCHANGED << actorVars, req, img, page, resp, alarmVars, ticksSince, pureVars >>

\* mutant: the entry is stored under a key that is not the request's
PutUnderOtherKey(p) ==
    /\ pc[p] = "put"
    /\ cache' = [cache EXCEPT ![CHOOSE k \in Keys : k # KeyOf(req[p])] = img[p]]
    /\ Step(p, "pageClose", << "put" >>)
    /\ UNCHANGED << browser, keptAliveInSeconds, alarm, open, launched,
                    req, img, page, resp, alarmVars, ticksSince, pureVars >>

\* ICON_BG_BROWSER.put resolves: the entry is stored
Put(p) ==
    /\ pc[p] = "put"
    /\ cache' = [cache EXCEPT ![KeyOf(req[p])] = img[p]]
    /\ Step(p, "pageClose", << "put" >>)
    /\ UNCHANGED << browser, keptAliveInSeconds, alarm, open, launched,
                    req, img, page, resp, alarmVars, ticksSince, pureVars >>

\* page.close resolves: second reset, the alarm and the response
PageClose(p) ==
    /\ pc[p] = "pageClose"
    /\ IF isConnected(page[p])
       THEN /\ keptAliveInSeconds' = 0
            /\ page' = [page EXCEPT ![p] = 0]
            /\ Respond(p, img[p], << "pageClose", "reset" >>)
       ELSE /\ Finish(p, Fault, << "throw" >>)
            /\ UNCHANGED << keptAliveInSeconds, page, alarm >>
    /\ UNCHANGED << browser, cache, open, launched, req, img, alarmVars, ticksSince, pureVars >>

\* navigation, the screenshot or the put fails for a reason of its own
RenderThrows(p) ==
    /\ pc[p] \in {"goto", "screenshot", "put"}
    /\ Throw(p)

\* the worker returns the actor's response to the client
Deliver(p) ==
    /\ pc[p] = "done"
    /\ pc' = [pc EXCEPT ![p] = "idle"]
    /\ req' = [req EXCEPT ![p] = NoRequest]
    /\ img' = [img EXCEPT ![p] = NullImg]
    /\ page' = [page EXCEPT ![p] = 0]
    /\ log' = [log EXCEPT ![p] = << >>]
    /\ resp' = [resp EXCEPT ![p] = NoResponse]
    /\ UNCHANGED << actorVars, alarmVars, ticksSince, pureVars >>

(* ---------------------------- Browser.alarm ---------------------------- *)
\* the stored alarm is due: the runtime deletes it and runs alarm() up to
\* the await on browser.close()
AlarmFire ==
    /\ alarm = 0
    /\ apc = "idle"
    /\ keptAliveInSeconds' = keptAliveInSeconds + 10
    /\ IF BelowCeiling(keptAliveInSeconds')
       THEN /\ alarm' = TEN_SECONDS
            /\ UNCHANGED alarmVars
       ELSE /\ alarm' = NoAlarm
            /\ IF browser # 0
               THEN apc' = "closing" /\ closing' = browser
               ELSE UNCHANGED alarmVars
    /\ UNCHANGED << browser, cache, open, launched, reqVars >>

\* browser.close() resolves; this.browser keeps the closed handle
AlarmClosed ==
    /\ apc = "closing"
    /\ open' = open \ {closing}
    /\ apc' = "idle"
    /\ closing' = 0
    /\ UNCHANGED << browser, keptAliveInSeconds, alarm, cache, launched,
                    reqVars, ticksSince, pureVars >>

(* ----------------------------- environment ----------------------------- *)
\* time passes
Advance ==
    /\ alarm > 0
    /\ alarm' = IF alarm > TimeStep THEN alarm - TimeStep ELSE 0
    /\ UNCHANGED << browser, keptAliveInSeconds, cache, open, launched,
                    reqVars, alarmVars, ticksSince, pureVars >>

\* a browser loses its connection by itself
Disconnect(b) ==
    /\ b \in open
    /\ open' = open \ {b}
    /\ UNCHANGED << browser, keptAliveInSeconds, alarm, cache, launched,
                    reqVars, alarmVars, ticksSince, pureVars >>

\* expirationTtl has run out for an entry
Expire(k) ==
    /\ cache[k] # NullImg
    /\ cache' = [cache EXCEPT ![k] = NullImg]
    /\ UNCHANGED << browser, keptAliveInSeconds, alarm, open, launched,
                    reqVars, alarmVars, ticksSince, pureVars >>

\* an alarm of the concurrent specification, which counts none
Tick == AlarmFire /\ UNCHANGED << ticksSince, pureVars >>

Next ==
    \/ \E p \in Procs, r \in FewRequests : Arrive(p, r)
    \/ \E p \in Procs : Hashed(p)
    \/ \E p \in Procs : LaunchOk(p)
    \/ \E p \in Procs : LaunchFail(p)
    \/ \E p \in Procs : CacheGet(p)
    \/ \E p \in Procs : NewPage(p)
    \/ \E p \in Procs : SetViewport(p)
    \/ \E p \in Procs : Goto(p)
    \/ \E p \in Procs : Screenshot(p)
    \/ \E p \in Procs : Put(p)
    \/ \E p \in Procs : PageClose(p)
    \/ \E p \in Procs : RenderThrows(p)
    \/ \E p \in Procs : Deliver(p)
    \/ Tick
    \/ AlarmClosed
    \/ Advance
    \/ \E b \in open : Disconnect(b)
    \/ \E k \in Keys : Expire(k)

Spec == Init /\ [][Next]_vars

\* one request at a time, every kind of request
One == {1}

NextSerial ==
    \/ \E p \in One, r \in Requests : Arrive(p, r)
    \/ \E p \in One : Hashed(p)
    \/ \E p \in One : LaunchOk(p)
    \/ \E p \in One : LaunchFail(p)
    \/ \E p \in One : CacheGet(p)
    \/ \E p \in One : NewPage(p)
    \/ \E p \in One : SetViewport(p)
    \/ \E p \in One : Goto(p)
    \/ \E p \in One : Screenshot(p)
    \/ \E p \in One : Put(p)
    \/ \E p \in One : PageClose(p)
    \/ \E p \in One : RenderThrows(p)
    \/ \E p \in One : Deliver(p)
    \/ Tick
    \/ AlarmClosed
    \/ Advance
    \/ \E b \in open : Disconnect(b)
    \/ \E k \in Keys : Expire(k)

SpecSerial == Init /\ [][NextSerial]_vars

\* two requests at a time, whatever the number of slots
Two == {1, 2}

NextPair ==
    \/ \E p \in Two, r \in FewRequests : Arrive(p, r)
    \/ \E p \in Two : Hashed(p)
    \/ \E p \in Two : LaunchOk(p)
    \/ \E p \in Two : LaunchFail(p)
    \/ \E p \in Two : CacheGet(p)
    \/ \E p \in Two : NewPage(p)
    \/ \E p \in Two : SetViewport(p)
    \/ \E p \in Two : Goto(p)
    \/ \E p \in Two : Screenshot(p)
    \/ \E p \in Two : Put(p)
    \/ \E p \in Two : PageClose(p)
    \/ \E p \in Two : RenderThrows(p)
    \/ \E p \in Two : Deliver(p)
    \/ Tick
    \/ AlarmClosed
    \/ Advance
    \/ \E b \in open : Disconnect(b)
    \/ \E k \in Keys : Expire(k)

SpecPair == Init /\ [][NextPair]_vars

\* a burst: requests one after the other, every launch granted, nothing
\* fails or disconnects, and at most one alarm between two arrivals
BurstRequests ==
    ImageRequests({"u1"}, { << Field("xMax", Num(480)) >>,
                            << Field("yMax", Str(<< "9", "0", "0" >>)) >> })

BurstTick ==
    /\ ticksSince = 0
    /\ AlarmFire
    /\ ticksSince' = 1
    /\ UNCHANGED pureVars

NextBurst ==
    \/ \E p \in One, r \in BurstRequests : Arrive(p, r)
    \/ \E p \in One : Hashed(p)
    \/ \E p \in One : LaunchOk(p)
    \/ \E p \in One : CacheGet(p)
    \/ \E p \in One : NewPage(p)
    \/ \E p \in One : SetViewport(p)
    \/ \E p \in One : Goto(p)
    \/ \E p \in One : Screenshot(p)
    \/ \E p \in One : Put(p)
    \/ \E p \in One : PageClose(p)
    \/ \E p \in One : Deliver(p)
    \/ BurstTick
    \/ AlarmClosed
    \/ Advance

SpecBurst == Init /\ [][NextBurst]_vars

\* the serial actor with what its runtime guarantees: time passes, a due
\* alarm is delivered, and a browser.close() under way resolves
NextLive ==
    \/ \E p \in One, r \in FewRequests : Arrive(p, r)
    \/ \E p \in One : Hashed(p)
    \/ \E p \in One : LaunchOk(p)
    \/ \E p \in One : LaunchFail(p)
    \/ \E p \in One : CacheGet(p)
    \/ \E p \in One : NewPage(p)
    \/ \E p \in One : SetViewport(p)
    \/ \E p \in One : Goto(p)
    \/ \E p \in One : Screenshot(p)
    \/ \E p \in One : Put(p)
    \/ \E p \in One : PageClose(p)
    \/ \E p \in One : RenderThrows(p)
    \/ \E p \in One : Deliver(p)
    \/ Tick
    \/ AlarmClosed
    \/ Advance
    \/ \E b \in open : Disconnect(b)
    \/ \E k \in Keys : Expire(k)

SpecLive ==
    /\ Init
    /\ [][NextLive]_vars
    /\ WF_vars(Advance)
    /\ WF_vars(Tick)
    /\ WF_vars(AlarmClosed)

\* the serial actor with its alarms counted since the last arrival, every
\* launch granted and nothing failing
GraceTick ==
    /\ AlarmFire
    /\ ticksSince' = IF ticksSince < MaxTicks THEN ticksSince + 1 ELSE ticksSince
    /\ UNCHANGED pureVars

NextGrace ==
    \/ \E p \in One, r \in BurstRequests : Arrive(p, r)
    \/ \E p \in One : Hashed(p)
    \/ \E p \in One : LaunchOk(p)
    \/ \E p \in One : CacheGet(p)
    \/ \E p \in One : NewPage(p)
    \/ \E p \in One : SetViewport(p)
    \/ \E p \in One : Goto(p)
    \/ \E p \in One : Screenshot(p)
    \/ \E p \in One : Put(p)
    \/ \E p \in One : PageClose(p)
    \/ \E p \in One : Deliver(p)
    \/ GraceTick
    \/ AlarmClosed
    \/ Advance

SpecGrace == Init /\ [][NextGrace]_vars

(* --------------------- the pure functions, applied --------------------- *)
MaxText == 3       \* longest options text, in fields and white spaces

\* the values a field of the options can carry
Values ==
    { Undefined, NaN, Num(0), Num(1), Num(480), Num(-5),
      Str(<< "4", "8", "0" >>), Str(<< "0" >>), Str(<< >>),
      Str(<< "1", "2", "p", "x" >>), Str(<< "a", "b", "c" >>),
      Str(<< " ", "4", "2" >>), Str(<< "-", "7" >>) }

\* the fields the texts are written with
TextFields ==
    { Field("xMax", Num(480)), Field("xMax", Str(<< "4", "8", "0" >>)),
      Field("yMax", Str(<< "9", "0", "0" >>)) }

FieldsOf(text) == { text[i] : i \in { j \in DOMAIN text : text[j] # Ws } }

\* texts of at most MaxText items that name every key once at most
Texts ==
    { t \in UNION { [1..n -> TextFields \cup {Ws}] : n \in 1..MaxText } :
        /\ FieldsOf(t) # {}
        /\ \A i, j \in DOMAIN t : t[i] # Ws /\ t[j] # Ws /\ i # j => t[i].key # t[j].key }

\* the options object with the given values of xMax and yMax, absent if undefined
ObjectOf(x, y) ==
    (IF x = Undefined THEN << >> ELSE << Field("xMax", x) >>)
        \o (IF y = Undefined THEN << >> ELSE << Field("yMax", y) >>)

PureArgs ==
    [t : {"texts"}, a : Texts, b : Texts]
        \cup [t : {"options"}, xMax : Values, yMax : Values]

InitPure ==
    /\ InitActor
    /\ arg \in PureArgs
    /\ result = NoResult

\* two options texts go through the normalizer and the hasher
Normalize ==
    /\ arg.t = "texts"
    /\ result = NoResult
    /\ result' = [t |-> "keys",
                  strA |-> stringify(parse(arg.a)),
                  strB |-> stringify(parse(arg.b)),
                  keyA |-> hashString(stringify(parse(arg.a))),
                  keyB |-> hashString(stringify(parse(arg.b)))]
    /\ UNCHANGED << actorVars, reqVars, alarmVars, ticksSince, arg >>

\* the viewport of an options object is worked out
SizeViewport ==
    /\ arg.t = "options"
    /\ result = NoResult
    /\ result' = [t |-> "viewport", size |-> Viewport(ObjectOf(arg.xMax, arg.yMax))]
    /\ UNCHANGED << actorVars, reqVars, alarmVars, ticksSince, arg >>

NextPure ==
    \/ Normalize
    \/ SizeViewport

SpecPure == InitPure /\ [][NextPure]_vars

(* ------------------------------ the claims ----------------------------- *)
\* between a request's newPage and its page.close
RenderPcs == {"setViewport", "goto", "screenshot", "put", "pageClose"}
InRender(p) == pc[p] \in RenderPcs

\* the step in which a due alarm is taken and alarm() runs
TickStep == alarm = 0 /\ alarm' # 0

\* the step in which the browser.close() of alarm() resolves
CloseStep == apc = "closing" /\ apc' = "idle"

\* C1: in every reachable state at most one launched and not yet closed
\* browser exists, whatever the interleaving of requests and alarms, two
\* requests suspended in puppeteer.launch included.
AtMostOneBrowser == Cardinality(open) <= 1

\* C4: the ceiling branch of alarm() never runs browser.close() on a browser
\* on which a request's render is in flight.
NoCloseDuringRender ==
    apc = "closing" => \A p \in Procs : ~(InRender(p) /\ page[p] = closing)

\* C5: every alarm adds exactly 10 to the counter and then either, below 60,
\* stores one new alarm and leaves the handle and the browser alone, or, at
\* 60 or more, stores none and closes the browser if a handle exists.
TickDoesOneOfTwo ==
    [][/\ TickStep =>
            /\ keptAliveInSeconds' = keptAliveInSeconds + 10
            /\ IF keptAliveInSeconds' < 60
               THEN /\ alarm' = 10
                    /\ UNCHANGED << browser, open, apc, closing >>
               ELSE /\ alarm' = NoAlarm
                    /\ browser' = browser
                    /\ IF browser # 0
                       THEN apc' = "closing" /\ closing' = browser
                       ELSE UNCHANGED << open, apc, closing >>
       /\ CloseStep => closing \notin open']_vars

\* C5 witness: the alarm that reached 60 after five that did not is closing
\* the browser and has stored no new alarm
TickAtCeiling ==
    /\ apc = "closing"
    /\ closing = browser
    /\ keptAliveInSeconds = 60
    /\ alarm = NoAlarm

\* C6: when the close of the ceiling branch has resolved the handle is
\* cleared: the actor holds no browser handle until a request launches one.
HandleClearedOnClose ==
    [][CloseStep /\ browser = closing => browser' = 0]_vars

\* C7: a request whose launch failed neither faults nor starts a render; it
\* answers with what the cache gave it, also when the handle it found was
\* closed or disconnected.
Has(L, e) == \E i \in DOMAIN L : L[i] = e

LaunchFailureIsCacheOnly ==
    \A p \in Procs :
        Has(log[p], "launchFailed") =>
            /\ ~Has(log[p], "render")
            /\ resp[p] # Fault
            /\ pc[p] = "done" => resp[p] = ImageResponse(img[p])

\* C9: in a request that renders the events come in the order cache get
\* (miss), counter reset, render, cache put, counter reset, response; no
\* render without a miss before it in the same request, and no response of
\* a rendering request before its put has stored the entry.
Count(L, e) == Cardinality({ i \in DOMAIN L : L[i] = e })
Gains(p, e) == Count(log'[p], e) > Count(log[p], e)
First(L, e) == IF Has(L, e) THEN CHOOSE i \in DOMAIN L : L[i] = e /\ \A j \in 1..(i - 1) : L[j] # e ELSE 0
Last(L, e) == IF Has(L, e) THEN CHOOSE i \in DOMAIN L : L[i] = e /\ \A j \in (i + 1)..Len(L) : L[j] # e ELSE 0

InOrder(L) ==
    /\ Has(L, "render") =>
           /\ 0 < First(L, "miss")
           /\ First(L, "miss") < First(L, "reset")
           /\ First(L, "reset") < First(L, "render")
    /\ Has(L, "newPage") => First(L, "render") < First(L, "newPage")
    /\ Has(L, "goto") => 0 < First(L, "newPage") /\ First(L, "newPage") < First(L, "goto")
    /\ Has(L, "screenshot") => 0 < First(L, "goto") /\ First(L, "goto") < First(L, "screenshot")
    /\ Has(L, "put") => 0 < First(L, "screenshot") /\ First(L, "screenshot") < First(L, "put")
    /\ Has(L, "respond") /\ Has(L, "render") =>
           /\ 0 < First(L, "put")
           /\ First(L, "put") < Last(L, "reset")
           /\ Last(L, "reset") < First(L, "respond")
           /\ Count(L, "reset") = 2

RenderInOrder ==
    /\ [](\A p \in Procs : InOrder(log[p]))
    /\ [][\A p \in Procs :
            /\ Gains(p, "miss") => cache[KeyOf(req[p])] = NullImg
            /\ Gains(p, "reset") => keptAliveInSeconds' = 0
            /\ Gains(p, "put") =>
                   /\ img[p] # NullImg
                   /\ cache'[KeyOf(req[p])] = img[p]
            /\ Gains(p, "respond") => resp'[p] = ImageResponse(img'[p])
            /\ resp[p] = NoResponse /\ resp'[p].kind = "image" => Gains(p, "respond")
            /\ pc[p] # "newPage" /\ pc'[p] = "newPage" => Gains(p, "render")]_vars

\* C9 witness: a request has rendered and answered
RenderedAndAnswered ==
    \E p \in Procs :
        pc[p] = "done" /\ Has(log[p], "render") /\ resp[p].kind = "image"

\* C10: a request that returns an image response leaves an alarm stored: it
\* stores one 10 seconds ahead if none was, and leaves a stored one as it is.
ResponseLeavesAlarm ==
    [][\A p \in Procs :
            resp[p] = NoResponse /\ resp'[p].kind = "image" =>
                /\ alarm' # NoAlarm
                /\ IF alarm = NoAlarm THEN alarm' = 10 ELSE alarm' = alarm]_vars

\* C10 witness: a request answered with an image while an alarm stored
\* earlier was partly run down, and left it so
AnsweredWithAlarmPending ==
    \E p \in Procs :
        /\ pc[p] = "done"
        /\ resp[p].kind = "image"
        /\ alarm > 0
        /\ alarm < 10
        /\ ~Has(log[p], "launch")

\* the bound on the counter that Headroom keeps
KeptBounded == keptAliveInSeconds <= MaxKept

\* C2: in a burst of valid image requests with at most one alarm between two
\* arrivals, every launch granted and no disconnect, the browser is launched
\* once and every request goes on with the same handle, hit or miss.
BurstLaunchesOnce ==
    /\ launched <= 1
    /\ \A p \in One : pc[p] \notin {"idle", "hash", "launch"} => browser = 1

\* C3: once a valid image request has answered and left a connected
\* browser, then unless a further request arrives the alarms go on until the
\* counter is at the ceiling, the browser is closed and no alarm stays
\* stored; and a request that finds its handle not connected launches.
LeftConnected ==
    \E p \in One :
        pc[p] = "done" /\ resp[p].kind = "image" /\ isConnected(browser)

TornDown ==
    /\ ~isConnected(browser)
    /\ alarm = NoAlarm
    /\ apc = "idle"

IdleBrowserIsTornDown ==
    /\ LeftConnected ~> (TornDown \/ InFlight # {})
    /\ [][\A p \in One :
            pc[p] = "hash" /\ pc'[p] # "hash" /\ ~isConnected(browser) =>
                pc'[p] = "launch"]_vars
    /\ [][TickStep /\ alarm' = NoAlarm => keptAliveInSeconds' >= 60]_vars

\* C3 witness: a browser was torn down by the alarm at the ceiling and the
\* next request is launching a new one
RelaunchAfterTeardown ==
    \E p \in One :
        /\ pc[p] = "launch"
        /\ browser # 0
        /\ TornDown
        /\ keptAliveInSeconds >= 60

SameOptionsSameKey ==
    result.t = "keys" /\ FieldsOf(arg.a) = FieldsOf(arg.b) =>
        /\ result.strA = result.strB
        /\ result.keyA = result.keyB

\* the size the statement of C12 gives for a field: a native number is
\* taken as it is, a string by its parsed integer, anything else by default
StatedSize(value, dflt) ==
    IF value.t = "number" /\ value # NaN THEN value.v
    ELSE IF value.t = "string" /\ parseInt(value.v) # NaN THEN parseInt(value.v).v
    ELSE dflt

\* the same, with a number or a parsed integer of 0 giving the default too
NonZeroSize(value, dflt) ==
    IF StatedSize(value, dflt) = 0 THEN dflt ELSE StatedSize(value, dflt)

\* C12 as stated: the viewport is the native number, the parsed integer of
\* a string, and the default when the field is absent or does not parse.
ViewportAsStated ==
    result.t = "viewport" =>
        result.size = [width  |-> StatedSize(arg.xMax, DefaultXMax),
                       height |-> StatedSize(arg.yMax, DefaultYMax)]

\* C12: the viewport is the native number other than 0, the parsed integer
\* other than 0 of a string, and the default (360, 1600) when the field is
\* absent, does not parse, is NaN or is 0; absent fields give 360x1600 and
\* xMax = "480" gives the width 480.
ViewportCoercion ==
    result.t = "viewport" =>
        /\ result.size = [width  |-> NonZeroSize(arg.xMax, DefaultXMax),
                          height |-> NonZeroSize(arg.yMax, DefaultYMax)]
        /\ arg.xMax = Undefined => result.size.width = 360
        /\ arg.yMax = Undefined => result.size.height = 1600
        /\ arg.xMax = Str(<< "4", "8", "0" >>) => result.size.width = 480

ParsedWidthZeroHeight ==
    /\ result.t = "viewport"
    /\ arg.xMax = Str(<< "4", "8", "0" >>)
    /\ arg.yMax = Num(0)
    /\ result.size = [width |-> 480, height |-> 1600]

\* the unexpired entries a render stored for the options of request p
EntriesFor(p) ==
    { k \in Keys : cache[k] # NullImg /\ cache[k].href[2] = optionsStrOf(req[p]) }

\* C13: the key is a function of the canonical options string alone: two
\* requests with equal canonical strings use the same key whatever their
\* URLs, and a request that gets the cache while an entry stored for its
\* options is unexpired answers with that entry's bytes without rendering.
KeyFromOptionsAlone ==
    [][\A p \in One :
        pc[p] = "get" /\ pc'[p] # "get" =>
            /\ \A r \in ImageRequests(Urls, OptionTexts) :
                   optionsStrOf(r) = optionsStrOf(req[p]) => KeyOf(r) = KeyOf(req[p])
            /\ EntriesFor(p) # {} =>
                   /\ pc'[p] = "done"
                   /\ \E k \in EntriesFor(p) : resp'[p] = ImageResponse(cache[k])
                   /\ ~Has(log'[p], "render")
                   /\ cache' = cache]_vars

OtherUrlServed ==
    \E p \in One :
        /\ pc[p] = "done"
        /\ Has(log[p], "hit")
        /\ resp[p].kind = "image"
        /\ resp[p].body.href[1] # req[p].url
        /\ resp[p].body.href[2] = optionsStrOf(req[p])

\* C14: after a valid image request that answered and left a connected
\* browser, with no request after it, the alarm does not close that browser
\* before its 6th tick since the request, hit or miss.
FullGrace ==
    (/\ \E p \in One : pc[p] = "done" /\ resp[p].kind = "image"
     /\ apc = "closing"
     /\ isConnected(closing))
        => ticksSince >= KEEP_BROWSER_ALIVE_IN_SECONDS \div TEN_SECONDS

\* C15: in every render the page is closed before the screenshot is put in
\* the cache: no put is awaited or done with the page still open, and a put
\* that throws leaves no page behind.
PageClosedBeforePut ==
    \A p \in One :
        /\ pc[p] = "put" => page[p] = 0
        /\ Has(log[p], "put") =>
               /\ Has(log[p], "pageClose")
               /\ First(log[p], "pageClose") < First(log[p], "put")
        /\ pc[p] = "done" /\ Has(log[p], "screenshot") /\ resp[p] = Fault =>
               page[p] = 0

\* C16: whenever this.browser is connected, no request is in flight and
\* alarm() is not closing it, an alarm is stored, on every way out of fetch.
IdleBrowserHasAlarm ==
    isConnected(browser) /\ InFlight = {} /\ apc = "idle" => alarm # NoAlarm

\* C17: the counter is a multiple of 10 from 0 to the ceiling of 60.
CounterWithinCeiling ==
    /\ keptAliveInSeconds % TEN_SECONDS = 0
    /\ keptAliveInSeconds >= 0
    /\ keptAliveInSeconds <= KEEP_BROWSER_ALIVE_IN_SECONDS

AnswersWithoutActing(p) ==
    /\ pc'[p] = "done"
    /\ log'[p] = << >>
    /\ UNCHANGED << browser, keptAliveInSeconds, alarm, cache, open, launched >>

GuidanceLeavesActorAlone ==
    [][\A p \in One :
        pc[p] = "idle" /\ pc'[p] # "idle" =>
            LET r == req'[p]
            IN  /\ r.favicon =>
                       AnswersWithoutActing(p) /\ resp'[p] = EmptyResponse
                /\ ~r.favicon /\ r.url = NoUrl =>
                       /\ AnswersWithoutActing(p)
                       /\ resp'[p] = TextResponse("Please add an ?url=https://example.com/ parameter")
                /\ ~r.favicon /\ r.url # NoUrl /\ r.search \in NoStringOptions =>
                       /\ AnswersWithoutActing(p)
                       /\ resp'[p] = TextResponse("Please add options to your url")]_vars

\* C19 witness: options written twice is answered with the guidance text
\* while a browser is connected and its alarm is stored
RepeatedOptionsRefused ==
    \E p \in One :
        /\ pc[p] = "done"
        /\ Len(req[p].search) = 2
        /\ resp[p] = TextResponse("Please add options to your url")
        /\ isConnected(browser)
        /\ alarm # NoAlarm

====
